---- MODULE Spec2Model ----
(***************************************************************************)
(* Restaurant reservation chatbot: the reservation ledger (src/tools.py),  *)
(* the time rounding rule (src/utils.py) and the tool-call loop of the     *)
(* conversation orchestrator (src/app.py).                                 *)
(*                                                                         *)
(* Strings that the code parses (times) are sequences of one-character     *)
(* strings; strings that the code only compares or tests for emptiness     *)
(* (ids, dates, names, phones) are TLA+ strings.                           *)
(***************************************************************************)
EXTENDS Integers, Sequences, FiniteSets, TLC

(***************************************************************************)
(* Bounds and fixtures                                                     *)
(***************************************************************************)

\* Number of concurrent sessions sharing the ledger.
NumSessions == 2

Sessions == 1..NumSessions

\* restaurant.json as loaded by load_restaurants(): a capacity-4 and a
\* capacity-2 restaurant. Names, locations and tags are texts, written as
\* the tuples of their characters.
ALL_RESTAURANTS ==
    << [id |-> "r1", name |-> <<"A","l","f","a">>, capacity |-> 4,
        location |-> <<"S","o","h","o">>,
        tags |-> << <<"T","h","a","i">>, <<"V","e","g","a","n">> >>],
       [id |-> "r2", name |-> <<"B","e","t","a">>, capacity |-> 2,
        location |-> <<"B","o","w">>,
        tags |-> << <<"P","i","z","z","a">> >>] >>

\* Python's None where the code returns or holds it.
None == << >>

(***************************************************************************)
(* utils.round_time_to_nearest_hour                                        *)
(***************************************************************************)

DigitChars == <<"0", "1", "2", "3", "4", "5", "6", "7", "8", "9">>

IsDigit(c) == \E i \in 1..10 : DigitChars[i] = c

\* int() of one decimal digit
DigitVal(c) == (CHOOSE i \in 1..10 : DigitChars[i] = c) - 1

\* re.match(r'^\d{1,2}:\d{2}$', s) on a string with no trailing newline
MatchesCore(s) ==
    /\ Len(s) \in {4, 5}
    /\ s[Len(s) - 2] = ":"
    /\ \A i \in 1..Len(s) : i # Len(s) - 2 => IsDigit(s[i])

\* '$' matches at the end of the string and also just before a final newline
StripFinalNewline(s) ==
    IF Len(s) > 0 /\ s[Len(s)] = "\n" THEN SubSeq(s, 1, Len(s) - 1) ELSE s

MatchesTimeFormat(s) == MatchesCore(s) \/ MatchesCore(StripFinalNewline(s))

\* int() of the field before ':' and of the field after it; int() ignores
\* surrounding whitespace, so a final newline does not change the minutes
ParseHours(s) ==
    LET t == StripFinalNewline(s)
    IN  IF Len(t) = 5 THEN 10 * DigitVal(t[1]) + DigitVal(t[2]) ELSE DigitVal(t[1])

ParseMinutes(s) ==
    LET t == StripFinalNewline(s)
    IN  10 * DigitVal(t[Len(t) - 1]) + DigitVal(t[Len(t)])

\* f"{hours:02d}:00"
FormatHour(h) ==
    << DigitChars[(h \div 10) + 1], DigitChars[(h % 10) + 1], ":", "0", "0" >>

\* a rounding that always keeps the hour
RoundedHour_Truncates(hours, minutes) == hours

\* a rounding that always moves to the next hour
RoundedHour_AlwaysUp(hours, minutes) == (hours + 1) % 24

RoundedHour(hours, minutes) ==
    IF minutes >= 30 THEN (hours + 1) % 24 ELSE hours

round_time_to_nearest_hour(time_str) ==
    IF ~MatchesTimeFormat(time_str) THEN None
    ELSE LET hours == ParseHours(time_str)
             minutes == ParseMinutes(time_str)
         IN  IF hours < 0 \/ hours > 23 \/ minutes < 0 \/ minutes > 59
             THEN None
             ELSE FormatHour(RoundedHour(hours, minutes))

(***************************************************************************)
(* The catalog and the reservations table                                  *)
(***************************************************************************)

\* the loop "for r in ALL_RESTAURANTS: if r['id'] == restaurant_id"
FindRestaurantById(restaurant_id) ==
    LET hits == { i \in 1..Len(ALL_RESTAURANTS) :
                    ALL_RESTAURANTS[i].id = restaurant_id }
    IN  IF hits = {} THEN None
        ELSE ALL_RESTAURANTS[CHOOSE i \in hits : \A j \in hits : i <= j]

RECURSIVE SumPartySize_AnyTime(_, _, _, _)
\* a SELECT whose WHERE clause forgets booking_time
SumPartySize_AnyTime(rows, restaurant_id, date, time) ==
    IF rows = << >> THEN 0
    ELSE LET r == Head(rows)
             rest == SumPartySize_AnyTime(Tail(rows), restaurant_id, date, time)
         IN  IF r.restaurant_id = restaurant_id /\ r.booking_date = date
             THEN r.party_size + rest
             ELSE rest

RECURSIVE SumPartySize_AnyRestaurant(_, _, _, _)
\* a SELECT whose WHERE clause forgets restaurant_id
SumPartySize_AnyRestaurant(rows, restaurant_id, date, time) ==
    IF rows = << >> THEN 0
    ELSE LET r == Head(rows)
             rest == SumPartySize_AnyRestaurant(Tail(rows), restaurant_id, date, time)
         IN  IF r.booking_date = date /\ r.booking_time = time
             THEN r.party_size + rest
             ELSE rest

RECURSIVE SumPartySize(_, _, _, _)
\* SELECT SUM(party_size) ... WHERE restaurant_id = ? AND booking_date = ?
\* AND booking_time = ?, with NULL read as 0
SumPartySize(rows, restaurant_id, date, time) ==
    IF rows = << >> THEN 0
    ELSE LET r == Head(rows)
             rest == SumPartySize(Tail(rows), restaurant_id, date, time)
         IN  IF /\ r.restaurant_id = restaurant_id
                /\ r.booking_date = date
                /\ r.booking_time = time
             THEN r.party_size + rest
             ELSE rest

(***************************************************************************)
(* tools.find_restaurant                                                   *)
(***************************************************************************)

UpperChars ==
    <<"A","B","C","D","E","F","G","H","I","J","K","L","M",
      "N","O","P","Q","R","S","T","U","V","W","X","Y","Z">>

LowerChars ==
    <<"a","b","c","d","e","f","g","h","i","j","k","l","m",
      "n","o","p","q","r","s","t","u","v","w","x","y","z">>

\* str.lower()
Lower(s) ==
    [ i \in 1..Len(s) |->
        IF \E k \in 1..Len(UpperChars) : UpperChars[k] = s[i]
        THEN LowerChars[CHOOSE k \in 1..Len(UpperChars) : UpperChars[k] = s[i]]
        ELSE s[i] ]

\* `sub in s` of two texts
Contains(s, sub) ==
    \E i \in 0..(Len(s) - Len(sub)) : SubSeq(s, i + 1, i + Len(sub)) = sub

\* An optional integer is None or the one-element tuple of its value.
Some(n) == << n >>

\* `if party_size` at line 92: a party size was given and is not zero
PartySizeTruthy(party_size) == party_size # None /\ party_size[1] # 0

\* line 87: any(tag.lower() in [t.lower() for t in restaurant['tags']] ...)
HasOneOfTags(restaurant, tags) ==
    \E k \in 1..Len(tags) : \E j \in 1..Len(restaurant.tags) :
        Lower(tags[k]) = Lower(restaurant.tags[j])

\* Lines 74-97 for one restaurant; an empty text or list counts as not given.
IsMatch(restaurant, name, location, tags, party_size) ==
    LET by_name ==
            ~(name # None /\ ~Contains(Lower(restaurant.name), Lower(name)))
        by_location ==
            IF location # None /\ by_name
            THEN Contains(Lower(restaurant.location), Lower(location))
            ELSE by_name
        by_tags ==
            IF tags # None /\ by_location
            THEN HasOneOfTags(restaurant, tags)
            ELSE by_location
    IN  IF PartySizeTruthy(party_size) /\ by_tags
        THEN IF party_size[1] <= 0 THEN FALSE
             ELSE ~(party_size[1] > restaurant.capacity)
        ELSE by_tags

NoRestaurantsFound == [type |-> "str", items |-> << >>]

\* lines 108-116: what is returned of a restaurant
ResultData(restaurant) ==
    [id |-> restaurant.id, name |-> restaurant.name, tags |-> restaurant.tags,
     location |-> restaurant.location, capacity |-> restaurant.capacity]

\* Lines 58-118. The value under "result" of the JSON text returned: the
\* text "No restaurants found..." or the list of the matches.
find_restaurant(name, location, tags, party_size) ==
    LET matches ==
            SelectSeq(ALL_RESTAURANTS,
                      LAMBDA r : IsMatch(r, name, location, tags, party_size))
    IN  IF matches = << >> THEN NoRestaurantsFound
        ELSE [type |-> "list",
              items |-> [ i \in 1..Len(matches) |-> ResultData(matches[i]) ]]

(***************************************************************************)
(* tools.check_availability                                                *)
(***************************************************************************)

\* a validation that lets a party size of zero through
PartySizeRejected_NegativeOnly(party_size) == party_size < 0

\* "if party_size <= 0" (line 134)
PartySizeRejected(party_size) == party_size <= 0

\* The call returns before it opens the database (lines 133-187).
CA_RejectsBeforeRead(restaurant_id, time, party_size) ==
    IF PartySizeRejected(party_size) THEN TRUE
    ELSE IF FindRestaurantById(restaurant_id) = None THEN TRUE
    ELSE IF party_size > FindRestaurantById(restaurant_id).capacity THEN TRUE
    ELSE round_time_to_nearest_hour(time) = None

\* a strict comparison in place of >=
IsAvailable_Strict(available_capacity, party_size) == available_capacity > party_size

\* is_available = available_capacity >= party_size
IsAvailable(available_capacity, party_size) == available_capacity >= party_size

\* the message chosen at lines 210-218
AvailabilityMessage(total_booked, restaurant_capacity, rounded_time, party_size) ==
    LET available_capacity == restaurant_capacity - total_booked
    IN  IF IsAvailable(available_capacity, party_size)
        THEN [kind |-> "available"]
        ELSE IF total_booked = restaurant_capacity
        THEN [kind |-> "fully_booked", time |-> rounded_time]
        ELSE IF available_capacity > 0
        THEN [kind |-> "only_space_for", available_capacity |-> available_capacity,
              time |-> rounded_time, party_size |-> party_size]
        ELSE [kind |-> "no_availability", party_size |-> party_size,
              time |-> rounded_time]

\* check_availability(restaurant_id, date, time, party_size), reading the
\* table as `rows`. The result is the JSON object the code returns, without
\* the keys that only repeat an argument (restaurant_id, date, party_size).
check_availability(rows, restaurant_id, date, time, party_size) ==
    LET restaurant == FindRestaurantById(restaurant_id)
        negative(msg) == [available |-> FALSE, time |-> time, message |-> msg]
    IN  IF PartySizeRejected(party_size)
        THEN negative([kind |-> "party_size_positive"])
        ELSE IF restaurant = None
        THEN negative([kind |-> "restaurant_not_found", restaurant_id |-> restaurant_id])
        ELSE IF party_size > restaurant.capacity
        THEN negative([kind |-> "max_total", restaurant_capacity |-> restaurant.capacity])
        ELSE LET rounded_time == round_time_to_nearest_hour(time)
             IN  IF rounded_time = None
                 THEN negative([kind |-> "invalid_time"])
                 ELSE LET total_booked ==
                              SumPartySize(rows, restaurant_id, date, rounded_time)
                          available_capacity == restaurant.capacity - total_booked
                      IN  [available |-> IsAvailable(available_capacity, party_size),
                           time |-> rounded_time,
                           restaurant_capacity |-> restaurant.capacity,
                           available_capacity |-> available_capacity,
                           message |-> AvailabilityMessage(total_booked,
                                           restaurant.capacity, rounded_time, party_size)]

(***************************************************************************)
(* State                                                                   *)
(***************************************************************************)

VARIABLES
    reservations,   \* the committed rows of table reservations, in insert order
    db_lock,        \* the session holding the EXCLUSIVE database lock, or 0
    calls,          \* per session: the tool call it is running, or its outcome
    llm_messages,   \* st.session_state.llm_messages: the turns sent to the model
    messages,       \* st.session_state.messages: the turns shown to the user
    tool_call_count,            \* the iteration counter of the tool-call loop
    response,                   \* the completion of the last request
    assistant_response,         \* the cleaned text of the last completion
    final_assistant_response,   \* what the turn will show to the user
    orch_pc,        \* where the script is: idle, requesting, dispatching, done, aborted
    user_turns,     \* user messages taken so far
    requests,       \* completions requested in this user turn
    invocations     \* tool functions called in this user turn

ledgerVars == <<reservations, db_lock, calls>>

orchVars ==
    <<llm_messages, messages, tool_call_count, response, assistant_response,
      final_assistant_response, orch_pc, user_turns, requests, invocations>>

vars == <<ledgerVars, orchVars>>

NoArgs ==
    [restaurant_id |-> "", date |-> "", time |-> None, party_size |-> 0,
     user_name |-> "", user_phone |-> ""]

NoResult == [message |-> [kind |-> "none"]]

\* a session that is running no tool call
NoCall ==
    [pc |-> "idle", op |-> "none", args |-> NoArgs, rounded_time |-> None,
     total_booked |-> 0, reservation_id |-> 0, result |-> NoResult]

\* the call with arguments `a` has ended: it returned `result`
Returned(op, a, result) ==
    [pc |-> "returned", op |-> op, args |-> a, rounded_time |-> None,
     total_booked |-> 0, reservation_id |-> 0, result |-> result]

\* the call with arguments `a` has ended: it raised to its caller
Raised(op, a) ==
    [pc |-> "raised", op |-> op, args |-> a, rounded_time |-> None,
     total_booked |-> 0, reservation_id |-> 0, result |-> NoResult]

CanStartCall(p) == calls[p].pc = "idle"

\* The caller takes the outcome of the call; the session can call again.
Ack(p) ==
    /\ calls[p].pc \in {"returned", "raised"}
    /\ calls' = [calls EXCEPT ![p] = NoCall]
    /\ UNCHANGED <<reservations, db_lock>>
    /\ UNCHANGED orchVars

\* lines 72-80: the welcome message is shown, nothing has been sent
OrchInit ==
    /\ llm_messages = << >>
    /\ messages = << [role |-> "assistant", content |-> [kind |-> "welcome"]] >>
    /\ tool_call_count = 0
    /\ response = [kind |-> "none"]
    /\ assistant_response = None
    /\ final_assistant_response = None
    /\ orch_pc = "idle"
    /\ user_turns = 0
    /\ requests = 0
    /\ invocations = 0

\* init_database(): the table exists and holds no row
LedgerInit ==
    /\ reservations = << >>
    /\ db_lock = 0
    /\ calls = [p \in Sessions |-> NoCall]

(***************************************************************************)
(* tools.check_availability as a tool call of a session                    *)
(***************************************************************************)

\* The SELECT of lines 194-198 needs a shared lock: it waits while another
\* connection holds the exclusive lock.
CA_Start(p, a) ==
    /\ CanStartCall(p)
    /\ CA_RejectsBeforeRead(a.restaurant_id, a.time, a.party_size) \/ db_lock = 0
    /\ calls' = [calls EXCEPT ![p] =
          Returned("check_availability", a,
                   check_availability(reservations, a.restaurant_id, a.date,
                                      a.time, a.party_size))]
    /\ UNCHANGED <<reservations, db_lock>>

\* check_availability called by a session on its own
CA_Call(p, a) == CA_Start(p, a) /\ UNCHANGED orchVars

\* The wait for the lock exceeds the connection's busy timeout: the SELECT
\* raises sqlite3.OperationalError, which check_availability does not catch.
CA_CallBusy(p, a) ==
    /\ CanStartCall(p)
    /\ ~CA_RejectsBeforeRead(a.restaurant_id, a.time, a.party_size)
    /\ db_lock \notin {0, p}
    /\ calls' = [calls EXCEPT ![p] = Raised("check_availability", a)]
    /\ UNCHANGED <<reservations, db_lock>>
    /\ UNCHANGED orchVars

(***************************************************************************)
(* tools.make_reservation                                                  *)
(***************************************************************************)

\* the negative results of make_reservation (lines 248, 263, 309, 350)
\* without the keys that only repeat an argument
MR_Negative(a, time, msg) == [success |-> FALSE, time |-> time, message |-> msg]

\* a validation that forgets the phone number
MissingContact_NameOnly(a) == a.user_name = ""

\* "if not user_name or not user_phone"
MissingContact(a) == a.user_name = "" \/ a.user_phone = ""

\* the outer availability check lets the call go on to the transaction
OuterCheckPasses(availability_result) == availability_result.available

\* Lines 246-275: input validation and the outer availability check.
MR_Start(p, a) ==
    /\ CanStartCall(p)
    /\ IF MissingContact(a)
       THEN calls' = [calls EXCEPT ![p] =
               Returned("make_reservation", a,
                        MR_Negative(a, a.time, [kind |-> "name_phone_required"]))]
       ELSE /\ CA_RejectsBeforeRead(a.restaurant_id, a.time, a.party_size) \/ db_lock = 0
            /\ LET availability_result ==
                       check_availability(reservations, a.restaurant_id, a.date,
                                          a.time, a.party_size)
               IN  IF ~OuterCheckPasses(availability_result)
                   THEN calls' = [calls EXCEPT ![p] =
                           Returned("make_reservation", a,
                                    MR_Negative(a, a.time, availability_result.message))]
                   ELSE calls' = [calls EXCEPT ![p] =
                           [pc |-> "checked", op |-> "make_reservation", args |-> a,
                            rounded_time |-> availability_result.time,
                            total_booked |-> 0, reservation_id |-> 0,
                            result |-> NoResult]]
    /\ UNCHANGED <<reservations, db_lock>>

\* make_reservation called by a session on its own
MR_Call(p, a) == MR_Start(p, a) /\ UNCHANGED orchVars

\* The SELECT of the outer check times out on the lock: the exception leaves
\* check_availability and make_reservation (line 260 is outside the try).
MR_CallBusy(p, a) ==
    /\ CanStartCall(p)
    /\ ~MissingContact(a)
    /\ ~CA_RejectsBeforeRead(a.restaurant_id, a.time, a.party_size)
    /\ db_lock \notin {0, p}
    /\ calls' = [calls EXCEPT ![p] = Raised("make_reservation", a)]
    /\ UNCHANGED <<reservations, db_lock>>
    /\ UNCHANGED orchVars

\* a BEGIN that takes no exclusive lock
LockGranted_Always(p) == TRUE

\* BEGIN EXCLUSIVE is granted only when no other connection holds the lock
LockGranted(p) == db_lock = 0

\* Lines 278-284: connect and BEGIN EXCLUSIVE.
MR_Begin(p) ==
    /\ calls[p].pc = "checked"
    /\ LockGranted(p)
    /\ db_lock' = p
    /\ calls' = [calls EXCEPT ![p].pc = "begun"]
    /\ UNCHANGED reservations
    /\ UNCHANGED orchVars

\* the except branch, lines 348-359, followed by conn.close()
MR_Failed(c) ==
    Returned("make_reservation", c.args,
             MR_Negative(c.args, c.rounded_time, [kind |-> "failed"]))

\* BEGIN EXCLUSIVE times out on another connection's lock: the exception is
\* caught at line 348.
MR_BeginBusy(p) ==
    /\ calls[p].pc = "checked"
    /\ db_lock \notin {0, p}
    /\ calls' = [calls EXCEPT ![p] = MR_Failed(calls[p])]
    /\ UNCHANGED <<reservations, db_lock>>
    /\ UNCHANGED orchVars

\* Lines 287-304: the in-transaction SELECT SUM(party_size).
MR_TxRead(p) ==
    /\ calls[p].pc = "begun"
    /\ calls' = [calls EXCEPT
          ![p].pc = "read",
          ![p].total_booked =
              SumPartySize(reservations, calls[p].args.restaurant_id,
                           calls[p].args.date, calls[p].rounded_time)]
    /\ UNCHANGED <<reservations, db_lock>>
    /\ UNCHANGED orchVars

\* a final check that forgets the seats already booked
TxAvailableCapacity_IgnoresBooked(c) ==
    FindRestaurantById(c.args.restaurant_id).capacity

\* available_capacity = restaurant_capacity - total_booked (line 304)
TxAvailableCapacity(c) ==
    FindRestaurantById(c.args.restaurant_id).capacity - c.total_booked

\* a make_reservation without the final availability check
TxCheckFails_Skipped(c) == FALSE

\* "if available_capacity < party_size" (line 307)
TxCheckFails(c) == TxAvailableCapacity(c) < c.args.party_size

\* a connection that keeps its lock when the call ends
ReleasedLock_Kept(p) == db_lock

\* conn.rollback() / conn.close(): the connection gives up its lock
ReleasedLock(p) == IF db_lock = p THEN 0 ELSE db_lock

\* Lines 307-318: the final check fails; rollback, negative result, close.
MR_TxReject(p) ==
    /\ calls[p].pc = "read"
    /\ TxCheckFails(calls[p])
    /\ calls' = [calls EXCEPT ![p] =
          Returned("make_reservation", calls[p].args,
                   MR_Negative(calls[p].args, calls[p].rounded_time,
                               [kind |-> "became_fully_booked",
                                available_capacity |-> TxAvailableCapacity(calls[p])]))]
    /\ db_lock' = ReleasedLock(p)
    /\ UNCHANGED reservations
    /\ UNCHANGED orchVars

\* a key that is the same for every row
NextRowId_Constant(rows) == 1

\* cursor.lastrowid of the INSERT: the AUTOINCREMENT key
NextRowId(rows) == Len(rows) + 1

\* Lines 320-328: INSERT (uncommitted) and lastrowid.
MR_TxInsert(p) ==
    /\ calls[p].pc = "read"
    /\ ~TxCheckFails(calls[p])
    /\ calls' = [calls EXCEPT ![p].pc = "inserted",
                              ![p].reservation_id = NextRowId(reservations)]
    /\ UNCHANGED <<reservations, db_lock>>
    /\ UNCHANGED orchVars

\* a row that keeps the time as it was asked for
InsertedRow_RequestedTime(c) ==
    [id |-> c.reservation_id,
     restaurant_id |-> c.args.restaurant_id,
     booking_date |-> c.args.date,
     booking_time |-> c.args.time,
     party_size |-> c.args.party_size,
     user_name |-> c.args.user_name,
     user_phone |-> c.args.user_phone]

\* the row of the INSERT at lines 321-325
InsertedRow(c) ==
    [id |-> c.reservation_id,
     restaurant_id |-> c.args.restaurant_id,
     booking_date |-> c.args.date,
     booking_time |-> c.rounded_time,
     party_size |-> c.args.party_size,
     user_name |-> c.args.user_name,
     user_phone |-> c.args.user_phone]

\* f"res{reservation_id}" at line 337: the text "res" and then the number
ReservationIdText(reservation_id) == << "res", reservation_id >>

\* a confirmation that repeats the time as it was asked for
MR_Success_UnroundedTime(c) ==
    [success |-> TRUE,
     reservation_id |-> ReservationIdText(c.reservation_id),
     restaurant_name |-> FindRestaurantById(c.args.restaurant_id).name,
     time |-> c.args.time,
     message |-> [kind |-> "confirmed",
                  restaurant_name |-> FindRestaurantById(c.args.restaurant_id).name,
                  party_size |-> c.args.party_size,
                  date |-> c.args.date,
                  time |-> c.args.time]]

\* the success result, lines 335-346
MR_Success(c) ==
    [success |-> TRUE,
     reservation_id |-> ReservationIdText(c.reservation_id),
     restaurant_name |-> FindRestaurantById(c.args.restaurant_id).name,
     time |-> c.rounded_time,
     message |-> [kind |-> "confirmed",
                  restaurant_name |-> FindRestaurantById(c.args.restaurant_id).name,
                  party_size |-> c.args.party_size,
                  date |-> c.args.date,
                  time |-> c.rounded_time]]

\* Lines 330-346 and the finally: commit, success result, close.
MR_Commit(p) ==
    /\ calls[p].pc = "inserted"
    /\ reservations' = Append(reservations, InsertedRow(calls[p]))
    /\ db_lock' = ReleasedLock(p)
    /\ calls' = [calls EXCEPT ![p] =
          Returned("make_reservation", calls[p].args, MR_Success(calls[p]))]
    /\ UNCHANGED orchVars

\* The SELECT, the INSERT or the COMMIT of the transaction raises
\* (sqlite3.Error): the except branch rolls back what the transaction wrote
\* and the connection closes.
MR_TxError(p) ==
    /\ \/ calls[p].pc \in {"begun", "inserted"}
       \/ calls[p].pc = "read" /\ ~TxCheckFails(calls[p])
    /\ calls' = [calls EXCEPT ![p] = MR_Failed(calls[p])]
    /\ db_lock' = ReleasedLock(p)
    /\ UNCHANGED reservations
    /\ UNCHANGED orchVars

(***************************************************************************)
(* Concurrent sessions on the shared ledger                                *)
(***************************************************************************)

\* what the sessions ask for
Contacts == { <<"Ann", "555">>, <<"", "555">>, <<"Ann", "">> }

BookingRequests(restaurant_ids, dates, times, party_sizes) ==
    { [restaurant_id |-> r, date |-> d, time |-> t, party_size |-> n,
       user_name |-> c[1], user_phone |-> c[2]] :
          r \in restaurant_ids, d \in dates, t \in times, n \in party_sizes,
          c \in Contacts }

CheckRequests(restaurant_ids, dates, times, party_sizes) ==
    { [restaurant_id |-> r, date |-> d, time |-> t, party_size |-> n,
       user_name |-> "", user_phone |-> ""] :
          r \in restaurant_ids, d \in dates, t \in times, n \in party_sizes }

ConcBookings ==
    BookingRequests({"r1", "r2"}, {"2025-06-01"}, { <<"1","0",":","1","5">> }, {2, 3})

ConcChecks ==
    CheckRequests({"r1", "r9"}, {"2025-06-01"},
                  { <<"1","0",":","1","5">>, <<"2","4",":","0","0">> }, {0, 2})

Init == LedgerInit /\ OrchInit

Next ==
    \E p \in Sessions :
        \/ \E a \in ConcChecks : CA_Call(p, a)
        \/ \E a \in ConcChecks : CA_CallBusy(p, a)
        \/ \E a \in ConcBookings : MR_Call(p, a)
        \/ \E a \in ConcBookings : MR_CallBusy(p, a)
        \/ MR_Begin(p)
        \/ MR_BeginBusy(p)
        \/ MR_TxRead(p)
        \/ MR_TxReject(p)
        \/ MR_TxInsert(p)
        \/ MR_Commit(p)
        \/ MR_TxError(p)
        \/ Ack(p)

Spec == Init /\ [][Next]_vars

(***************************************************************************)
(* One session alone on the ledger, no database failure                    *)
(***************************************************************************)

SeqSession == CHOOSE p \in Sessions : \A q \in Sessions : p <= q

SeqTimes ==
    { <<"0","9",":","4","5">>, <<"1","0",":","1","5">>, <<"2","3",":","4","5">>,
      <<"0","0",":","1","0">>, <<"2","4",":","0","0">>, <<"9",":","5">> }

\* bookings go to one Slot of each restaurant (09:45 and 10:15 both round to
\* 10:00), so that the ledger is bounded by the capacities
SeqBookingTimes ==
    { <<"0","9",":","4","5">>, <<"1","0",":","1","5">>, <<"2","4",":","0","0">> }

SeqBookings ==
    BookingRequests({"r1", "r2", "r9"}, {"2025-06-01"}, SeqBookingTimes, 0..3)

SeqChecks ==
    CheckRequests({"r1", "r2", "r9"}, {"2025-06-01"}, SeqTimes, (0 - 1)..5)

SeqNext ==
    \/ \E a \in SeqChecks : CA_Call(SeqSession, a)
    \/ \E a \in SeqBookings : MR_Call(SeqSession, a)
    \/ MR_Begin(SeqSession)
    \/ MR_TxRead(SeqSession)
    \/ MR_TxInsert(SeqSession)
    \/ MR_Commit(SeqSession)
    \/ Ack(SeqSession)

SeqSpec == Init /\ [][SeqNext]_vars

(***************************************************************************)
(* One session alone on the ledger, with dates of every kind. The code     *)
(* hands the date to the database as it is, so a date is a text as a whole *)
(***************************************************************************)

DateTexts == {"2025-06-01", "2025-13-45", "tomorrow"}

DateBookings ==
    BookingRequests({"r2"}, DateTexts, { <<"1","0",":","1","5">> }, {2})

DateChecks ==
    CheckRequests({"r2"}, DateTexts, { <<"1","0",":","1","5">> }, {1, 2})

DateNext ==
    \/ \E a \in DateChecks : CA_Call(SeqSession, a)
    \/ \E a \in DateBookings : MR_Call(SeqSession, a)
    \/ MR_Begin(SeqSession)
    \/ MR_TxRead(SeqSession)
    \/ MR_TxInsert(SeqSession)
    \/ MR_Commit(SeqSession)
    \/ Ack(SeqSession)

DateSpec == Init /\ [][DateNext]_vars

(***************************************************************************)
(* One session alone on the ledger around midnight: requests for the last  *)
(* and the first half hour of two neighbouring dates                       *)
(***************************************************************************)

MidnightDates == {"2025-06-01", "2025-06-02"}

MidnightTimes ==
    { <<"2","3",":","4","5">>, <<"2","3",":","3","0">>, <<"0","0",":","1","0">>,
      <<"2","3",":","1","5">> }

\* bookings go to the Slot at 00:00 of either date
MidnightBookings ==
    { [restaurant_id |-> "r2", date |-> d, time |-> t, party_size |-> n,
       user_name |-> "Ann", user_phone |-> "555"] :
          d \in MidnightDates, n \in {1, 2},
          t \in { <<"2","3",":","4","5">>, <<"0","0",":","1","0">> } }

MidnightChecks == CheckRequests({"r2"}, MidnightDates, MidnightTimes, {1, 2})

MidnightNext ==
    \/ \E a \in MidnightChecks : CA_Call(SeqSession, a)
    \/ \E a \in MidnightBookings : MR_Call(SeqSession, a)
    \/ MR_Begin(SeqSession)
    \/ MR_TxRead(SeqSession)
    \/ MR_TxInsert(SeqSession)
    \/ MR_Commit(SeqSession)
    \/ Ack(SeqSession)

MidnightSpec == Init /\ [][MidnightNext]_vars

(***************************************************************************)
(* tools.find_restaurant called on its own                                 *)
(***************************************************************************)

FindArgs(name, location, tags, party_size) ==
    [name |-> name, location |-> location, tags |-> tags, party_size |-> party_size]

FindResult(result) == [message |-> [kind |-> "none"], result |-> result]

\* Lines 58-118: find_restaurant is called and returns; it opens no
\* connection to the database.
FR_Start(p, a) ==
    /\ CanStartCall(p)
    /\ calls' = [calls EXCEPT ![p] =
          Returned("find_restaurant", a,
                   FindResult(find_restaurant(a.name, a.location, a.tags,
                                              a.party_size)))]
    /\ UNCHANGED <<reservations, db_lock>>

FR_Call(p, a) == FR_Start(p, a) /\ UNCHANGED orchVars

FindNames == { None, <<"a">>, <<"A","L">>, <<"e","t">>, <<"z">> }

FindLocations == { None, <<"O">>, <<"b","o","w">>, <<"x">> }

FindTags ==
    { None, << <<"t","h","a","i">> >>, << <<"P","I","Z","Z","A">>, <<"x">> >>,
      << <<"i","z","z">> >>, << <<"x">> >> }

FindPartySizes == { None } \cup { Some(n) : n \in (0 - 1)..5 }

FindRequests ==
    { FindArgs(name, location, tags, party_size) :
        name \in FindNames, location \in FindLocations,
        tags \in FindTags, party_size \in FindPartySizes }

FindNext ==
    \/ \E a \in FindRequests : FR_Call(SeqSession, a)
    \/ Ack(SeqSession)

FindSpec == Init /\ [][FindNext]_vars

(***************************************************************************)
(* The three tools of tool_map, called by concurrent sessions              *)
(***************************************************************************)

ConcFinds ==
    { FindArgs(None, None, None, None),
      FindArgs(<<"z">>, None, None, Some(0)) }

LedgerNext ==
    \/ Next
    \/ \E p \in Sessions : \E a \in ConcFinds : FR_Call(p, a)

LedgerSpec == Init /\ [][LedgerNext]_vars

(***************************************************************************)
(* One session with the three tools over several Slots: two restaurants,   *)
(* and times that round to 10:00 (09:45, 10:15) and to 11:00 (11:20)       *)
(***************************************************************************)

IsolationTimes ==
    { <<"0","9",":","4","5">>, <<"1","0",":","1","5">>, <<"1","1",":","2","0">> }

IsolationBookings ==
    { [restaurant_id |-> r, date |-> "2025-06-01", time |-> t, party_size |-> 2,
       user_name |-> "Ann", user_phone |-> "555"] :
          r \in {"r1", "r2"}, t \in IsolationTimes }

IsolationChecks == CheckRequests({"r1", "r2"}, {"2025-06-01"}, IsolationTimes, {1, 2})

IsolationNext ==
    \/ \E a \in ConcFinds : FR_Call(SeqSession, a)
    \/ \E a \in IsolationChecks : CA_Call(SeqSession, a)
    \/ \E a \in IsolationBookings : MR_Call(SeqSession, a)
    \/ MR_Begin(SeqSession)
    \/ MR_TxRead(SeqSession)
    \/ MR_TxInsert(SeqSession)
    \/ MR_Commit(SeqSession)
    \/ Ack(SeqSession)

IsolationSpec == Init /\ [][IsolationNext]_vars

(***************************************************************************)
(* utils.round_time_to_nearest_hour called on its own                      *)
(***************************************************************************)

\* the longest text the rounding is given
MaxTimeLen == 6

TimeChars == {"0", "2", "3", "5", "9", ":", "\n"}

\* every text of at most MaxTimeLen of these characters
TimeStrings == UNION { [1..n -> TimeChars] : n \in 0..MaxTimeLen }

RoundResult(rounded) == [message |-> [kind |-> "none"], rounded |-> rounded]

\* utils.py lines 60-89: the function is called with `time_str` and returns.
RT_Call(p, time_str) ==
    /\ CanStartCall(p)
    /\ calls' = [calls EXCEPT ![p] =
          Returned("round_time_to_nearest_hour", [NoArgs EXCEPT !.time = time_str],
                   RoundResult(round_time_to_nearest_hour(time_str)))]
    /\ UNCHANGED <<reservations, db_lock>>
    /\ UNCHANGED orchVars

\* The caller gives the time it got back to the function again.
RT_CallOnResult(p) ==
    /\ calls[p].pc = "returned"
    /\ calls[p].op = "round_time_to_nearest_hour"
    /\ calls[p].result.rounded # None
    /\ calls' = [calls EXCEPT ![p] =
          Returned("round_time_to_nearest_hour",
                   [NoArgs EXCEPT !.time = calls[p].result.rounded],
                   RoundResult(round_time_to_nearest_hour(calls[p].result.rounded)))]
    /\ UNCHANGED <<reservations, db_lock>>
    /\ UNCHANGED orchVars

RoundNext ==
    \/ /\ CanStartCall(SeqSession)
       /\ \E time_str \in TimeStrings : RT_Call(SeqSession, time_str)
    \/ RT_CallOnResult(SeqSession)
    \/ Ack(SeqSession)

RoundSpec == Init /\ [][RoundNext]_vars

(***************************************************************************)
(* app.py: one user turn of the conversation, the tool-call loop           *)
(***************************************************************************)

MAX_SEQUENTIAL_CALLS == 4

\* the user messages a conversation is followed for
MaxTurns == 1

\* the keys of tools.tool_map
tool_map == {"find_restaurant", "check_availability", "make_reservation"}

\* A completion is drawn as the text clean_response_text leaves of it, and
\* the text as what extract_function_call can find in it:
\*   json           "none": the pattern {..."function_call"...} matches nothing
\*                  "invalid": it matches, json.loads raises JSONDecodeError
\*                  "object": it matches and parses to an object
\*   function_call  the value under the key "function_call" of that object
\* A JSON value is a record with its type; `null` stands for any value that
\* Python takes as false (a missing key, null, an empty object).
JsonNull == [type |-> "null", value |-> ""]

JsonStr(v) == [type |-> "str", value |-> v]

JsonList == [type |-> "list", value |-> ""]

\* "parameters": null
NullParameters == [type |-> "null", time |-> "absent", args |-> NoArgs]

\* "parameters": {...}; time_type is the type of its "time" ("absent" without
\* the key), args holds the values of the keys
ObjectParameters(time_type, a) == [type |-> "object", time |-> time_type, args |-> a]

NullFunctionCall == [type |-> "null", name |-> JsonNull, parameters |-> NullParameters]

StrFunctionCall == [type |-> "str", name |-> JsonNull, parameters |-> NullParameters]

ObjectFunctionCall(name, parameters) ==
    [type |-> "object", name |-> name, parameters |-> parameters]

ModelText(json, function_call) ==
    [kind |-> "model_text", json |-> json, function_call |-> function_call]

\* lines 48-64: None unless the text holds an object that parses
extract_function_call(text) ==
    IF text.json = "object" THEN text.function_call ELSE NullFunctionCall

Truthy_Always(function_call) == TRUE

\* line 142, `if function_call:`
Truthy(function_call) == function_call.type # "null"

\* line 151, `function_name in tools.tool_map`, of a name that can be hashed
InToolMap(function_name) ==
    function_name.type = "str" /\ function_name.value \in tool_map

\* Lines 144-157 raise, outside the try of the tool call: .get of a value
\* that is no object (144), the hash of a list (151), `"time" in None` (153),
\* re.match of a value that is no string (utils.py line 71, called at 155)
RaisesBeforeToolTry(function_call) ==
    IF function_call.type # "object" THEN TRUE
    ELSE IF function_call.name.type = "list" THEN TRUE
    ELSE IF ~InToolMap(function_call.name) THEN FALSE
    ELSE IF function_call.parameters.type = "null" THEN TRUE
    ELSE function_call.parameters.time = "int"

DispatchArgs_Unrounded(parameters) == parameters.args

\* lines 153-157: the time is replaced by its rounding when there is one
DispatchArgs(parameters) ==
    LET rounded_time == round_time_to_nearest_hour(parameters.args.time)
    IN  IF rounded_time # None
        THEN [parameters.args EXCEPT !.time = rounded_time]
        ELSE parameters.args

\* line 162 raises TypeError: the required argument `time` is missing
CallRaisesTypeError(parameters) == parameters.time = "absent"

\* a loop condition that admits one iteration more
LoopContinues_OneMore(count) == count <= MAX_SEQUENTIAL_CALLS

\* line 107: the loop goes on while the counter is below the maximum
LoopContinues(count) == count < MAX_SEQUENTIAL_CALLS

AfterIteration(count) == IF LoopContinues(count) THEN "requesting" ELSE "done"

AssistantTurn(text) == [role |-> "assistant", content |-> text]

UserTurn(content) == [role |-> "user", content |-> content]

\* lines 165-174
FunctionResultTurns(text, tool_result) ==
    << AssistantTurn(text),
       UserTurn([kind |-> "function_result", result |-> tool_result]) >>

\* lines 187-195
FunctionErrorTurns(text) ==
    << AssistantTurn(text), UserTurn([kind |-> "error_calling_function"]) >>

InvalidNameTurns_ErrorOnly(text, function_name) ==
    << UserTurn([kind |-> "invalid_function_name", name |-> function_name]) >>

\* lines 208-216
InvalidNameTurns(text, function_name) ==
    << AssistantTurn(text),
       UserTurn([kind |-> "invalid_function_name", name |-> function_name]) >>

ErrorGeneratingResponse_Absent == None

\* line 235
ErrorGeneratingResponse == [kind |-> "error_generating_response"]

\* Lines 88-107: the user sends a message. It joins both histories, and
\* the loop starts with its counter at zero and no final response.
UserInput ==
    /\ orch_pc = "idle"
    /\ user_turns < MaxTurns
    /\ user_turns' = user_turns + 1
    /\ messages' = Append(messages,
                      UserTurn([kind |-> "user_input", n |-> user_turns + 1]))
    /\ llm_messages' = Append(llm_messages,
                      UserTurn([kind |-> "user_input", n |-> user_turns + 1]))
    /\ tool_call_count' = 0
    /\ final_assistant_response' = None
    /\ assistant_response' = None
    /\ response' = [kind |-> "none"]
    /\ requests' = 0
    /\ invocations' = 0
    /\ orch_pc' = AfterIteration(0)
    /\ UNCHANGED ledgerVars

\* Lines 120-134 or response.text at line 137 raise; lines 233-238 take it.
RequestFails ==
    /\ orch_pc = "requesting"
    /\ requests' = requests + 1
    /\ response' = [kind |-> "request_failed"]
    /\ final_assistant_response' = ErrorGeneratingResponse
    /\ orch_pc' = "aborted"
    /\ UNCHANGED <<llm_messages, messages, tool_call_count, assistant_response,
                   user_turns, invocations>>
    /\ UNCHANGED ledgerVars

\* an iteration that runs on a text without a request of its own
Completes_WithoutRequest(text) ==
    /\ orch_pc = "requesting"
    /\ requests' = requests
    /\ response' = text
    /\ assistant_response' = text

\* lines 120-140: the completion arrives and is cleaned
Completes(text) ==
    /\ orch_pc = "requesting"
    /\ requests' = requests + 1
    /\ response' = text
    /\ assistant_response' = text

\* Lines 222-231: no function call, the text is the answer.
AnswerWithoutCall(text) ==
    /\ Completes(text)
    /\ ~Truthy(extract_function_call(text))
    /\ final_assistant_response' = text
    /\ llm_messages' = Append(llm_messages, AssistantTurn(text))
    /\ orch_pc' = "done"
    /\ UNCHANGED <<messages, tool_call_count, user_turns, invocations>>
    /\ UNCHANGED ledgerVars

\* Lines 144-157 raise; lines 233-238 take it as a failure of the request.
IterationRaises(text) ==
    /\ Completes(text)
    /\ Truthy(extract_function_call(text))
    /\ RaisesBeforeToolTry(extract_function_call(text))
    /\ final_assistant_response' = ErrorGeneratingResponse
    /\ orch_pc' = "aborted"
    /\ UNCHANGED <<llm_messages, messages, tool_call_count, user_turns, invocations>>
    /\ UNCHANGED ledgerVars

\* Lines 203-220: the name is not a key of tool_map.
InvalidName(text) ==
    LET function_call == extract_function_call(text) IN
    /\ Completes(text)
    /\ Truthy(function_call)
    /\ ~RaisesBeforeToolTry(function_call)
    /\ ~InToolMap(function_call.name)
    /\ llm_messages' = llm_messages \o InvalidNameTurns(text, function_call.name)
    /\ final_assistant_response' = text
    /\ orch_pc' = "done"
    /\ UNCHANGED <<messages, tool_call_count, user_turns, invocations>>
    /\ UNCHANGED ledgerVars

\* Lines 160-162 and 182-201: the call of the tool raises at once.
CallRaises(text) ==
    LET function_call == extract_function_call(text) IN
    /\ Completes(text)
    /\ Truthy(function_call)
    /\ ~RaisesBeforeToolTry(function_call)
    /\ InToolMap(function_call.name)
    /\ CallRaisesTypeError(function_call.parameters)
    /\ invocations' = invocations + 1
    /\ llm_messages' = llm_messages \o FunctionErrorTurns(text)
    /\ tool_call_count' = tool_call_count + 1
    /\ orch_pc' = AfterIteration(tool_call_count + 1)
    /\ UNCHANGED <<messages, final_assistant_response, user_turns>>
    /\ UNCHANGED ledgerVars

\* Lines 151-162: the time is rounded and the tool is entered.
CallTool(p, text) ==
    LET function_call == extract_function_call(text) IN
    /\ Completes(text)
    /\ Truthy(function_call)
    /\ ~RaisesBeforeToolTry(function_call)
    /\ InToolMap(function_call.name)
    /\ ~CallRaisesTypeError(function_call.parameters)
    /\ \/ /\ function_call.name.value = "check_availability"
          /\ CA_Start(p, DispatchArgs(function_call.parameters))
       \/ /\ function_call.name.value = "make_reservation"
          /\ MR_Start(p, DispatchArgs(function_call.parameters))
    /\ invocations' = invocations + 1
    /\ orch_pc' = "dispatching"
    /\ UNCHANGED <<llm_messages, messages, tool_call_count,
                   final_assistant_response, user_turns>>

\* Lines 162-180 and 107: the tool returns; the text and the result join the
\* history, the counter goes up and the loop condition is taken.
ToolReturns(p) ==
    /\ orch_pc = "dispatching"
    /\ calls[p].pc = "returned"
    /\ llm_messages' =
          llm_messages \o FunctionResultTurns(assistant_response, calls[p].result)
    /\ tool_call_count' = tool_call_count + 1
    /\ orch_pc' = AfterIteration(tool_call_count + 1)
    /\ calls' = [calls EXCEPT ![p] = NoCall]
    /\ UNCHANGED <<reservations, db_lock>>
    /\ UNCHANGED <<messages, response, assistant_response,
                   final_assistant_response, user_turns, requests, invocations>>

\* Lines 240-251: the final response is shown and joins the display history.
Display ==
    /\ orch_pc \in {"done", "aborted"}
    /\ messages' = Append(messages, AssistantTurn(final_assistant_response))
    /\ orch_pc' = "idle"
    /\ UNCHANGED <<llm_messages, tool_call_count, response, assistant_response,
                   final_assistant_response, user_turns, requests, invocations>>
    /\ UNCHANGED ledgerVars

DirectiveArgs ==
    [restaurant_id |-> "r1", date |-> "2025-06-01", time |-> <<"1","9",":","4","0">>,
     party_size |-> 2, user_name |-> "", user_phone |-> ""]

BookingArgs ==
    [DirectiveArgs EXCEPT !.party_size = 3, !.user_name = "Ann", !.user_phone = "555"]

\* the texts the model answers with
Completions ==
    { ModelText("none", NullFunctionCall),
      ModelText("invalid", NullFunctionCall),
      ModelText("object", NullFunctionCall),
      ModelText("object", StrFunctionCall) } \cup
    { ModelText("object", ObjectFunctionCall(name, parameters)) :
        name \in {JsonStr("cancel_reservation"), JsonNull, JsonList},
        parameters \in {ObjectParameters("str", DirectiveArgs)} } \cup
    { ModelText("object", ObjectFunctionCall(JsonStr("check_availability"), parameters)) :
        parameters \in
          { ObjectParameters("str", DirectiveArgs),
            ObjectParameters("str", [DirectiveArgs EXCEPT !.time = <<"2","4",":","0","0">>]),
            ObjectParameters("absent", [DirectiveArgs EXCEPT !.time = None]),
            ObjectParameters("int", [DirectiveArgs EXCEPT !.time = None]) } } \cup
    { ModelText("object", ObjectFunctionCall(JsonStr("make_reservation"), parameters)) :
        parameters \in {ObjectParameters("str", BookingArgs), NullParameters} }

OrchNext ==
    \/ UserInput
    \/ RequestFails
    \/ \E text \in Completions : AnswerWithoutCall(text)
    \/ \E text \in Completions : IterationRaises(text)
    \/ \E text \in Completions : InvalidName(text)
    \/ \E text \in Completions : CallRaises(text)
    \/ \E text \in Completions : CallTool(SeqSession, text)
    \/ MR_Begin(SeqSession)
    \/ MR_TxRead(SeqSession)
    \/ MR_TxInsert(SeqSession)
    \/ MR_Commit(SeqSession)
    \/ ToolReturns(SeqSession)
    \/ Display

OrchSpec == Init /\ [][OrchNext]_vars

\* one text for each way an iteration of the loop can go: an answer, a
\* directive that is no object, an unknown name, a call without its time, a
\* check and a booking
TurnCompletions ==
    { ModelText("none", NullFunctionCall),
      ModelText("object", StrFunctionCall),
      ModelText("object", ObjectFunctionCall(JsonStr("cancel_reservation"),
                                             ObjectParameters("str", DirectiveArgs))),
      ModelText("object", ObjectFunctionCall(JsonStr("check_availability"),
                    ObjectParameters("absent", [DirectiveArgs EXCEPT !.time = None]))),
      ModelText("object", ObjectFunctionCall(JsonStr("check_availability"),
                                             ObjectParameters("str", DirectiveArgs))),
      ModelText("object", ObjectFunctionCall(JsonStr("make_reservation"),
                                             ObjectParameters("str", BookingArgs))) }

TurnNext ==
    \/ UserInput
    \/ RequestFails
    \/ \E text \in TurnCompletions : AnswerWithoutCall(text)
    \/ \E text \in TurnCompletions : IterationRaises(text)
    \/ \E text \in TurnCompletions : InvalidName(text)
    \/ \E text \in TurnCompletions : CallRaises(text)
    \/ \E text \in TurnCompletions : CallTool(SeqSession, text)
    \/ MR_Begin(SeqSession)
    \/ MR_TxRead(SeqSession)
    \/ MR_TxInsert(SeqSession)
    \/ MR_Commit(SeqSession)
    \/ ToolReturns(SeqSession)
    \/ Display

\* a step of the script inside a user turn: the loop of lines 107-238 and the
\* display of lines 240-251
TurnStep == orch_pc # "idle" /\ TurnNext

\* The script runs on: every completion request returns or fails, and the
\* tool calls and the statements after them are executed.
OrchFairSpec == Init /\ [][TurnNext]_vars /\ WF_vars(TurnStep)

(***************************************************************************)
(* What the claims are stated with: the Slot, its booked total and the     *)
(* rounding rule, written from their definitions rather than from the code *)
(***************************************************************************)

TwoDigits(n) == << DigitChars[(n \div 10) + 1], DigitChars[(n % 10) + 1] >>

\* the texts "HH:MM" and "H:MM" of hour h and minute m
ClockTexts(h, m) ==
    { TwoDigits(h) \o <<":">> \o TwoDigits(m) } \cup
    ( IF h < 10 THEN { << DigitChars[h + 1], ":" >> \o TwoDigits(m) } ELSE {} )

\* every text that names a time of the 24-hour clock
AllClockTexts == UNION { ClockTexts(h, m) : h \in 0..23, m \in 0..59 }

\* t names a time of the 24-hour clock
IsClockTime(t) == t \in AllClockTexts

\* for each such text, the hour of its Slot: the nearest hour, on the hour
SlotTimes ==
    [ t \in AllClockTexts |->
        LET hm == CHOOSE hm \in (0..23) \X (0..59) : t \in ClockTexts(hm[1], hm[2])
        IN  TwoDigits(IF hm[2] >= 30 THEN (hm[1] + 1) % 24 ELSE hm[1])
               \o <<":", "0", "0">> ]

SlotTime(t) == SlotTimes[t]

\* the rows of `rows` that lie in Slot (restaurant_id, date, time)
SlotRows(rows, restaurant_id, date, time) ==
    { k \in 1..Len(rows) : /\ rows[k].restaurant_id = restaurant_id
                           /\ rows[k].booking_date = date
                           /\ rows[k].booking_time = time }

RECURSIVE SumOver(_, _)
SumOver(rows, ks) ==
    IF ks = {} THEN 0
    ELSE LET k == CHOOSE k \in ks : TRUE
         IN  rows[k].party_size + SumOver(rows, ks \ {k})

\* seats booked in a Slot by the committed reservations
Booked(restaurant_id, date, time) ==
    SumOver(reservations, SlotRows(reservations, restaurant_id, date, time))

CapacityOf(restaurant_id) ==
    LET r == CHOOSE r \in { ALL_RESTAURANTS[i] : i \in 1..Len(ALL_RESTAURANTS) } :
                 r.id = restaurant_id
    IN  r.capacity

KnownRestaurant(restaurant_id) ==
    \E i \in 1..Len(ALL_RESTAURANTS) : ALL_RESTAURANTS[i].id = restaurant_id

InTransaction(p) == calls[p].pc \in {"begun", "read", "inserted"}

\* session p ended a call of `op` in this step
Ends(p, op) ==
    /\ calls[p].pc \notin {"returned", "raised"}
    /\ calls'[p].pc \in {"returned", "raised"}
    /\ calls'[p].op = op

(***************************************************************************)
(* C1                                                                      *)
(***************************************************************************)

\* C1: in every reachable state, whatever the interleaving of the sessions'
\* make_reservation calls, the party sizes of the committed reservations of
\* every Slot of every restaurant sum to at most the restaurant's capacity.
C1_CapacityInvariant ==
    \A i \in 1..Len(ALL_RESTAURANTS), k \in 1..Len(reservations) :
        Booked(ALL_RESTAURANTS[i].id, reservations[k].booking_date,
               reservations[k].booking_time) <= ALL_RESTAURANTS[i].capacity

\* Two calls for one Slot have both passed the outer check, one has
\* committed, and the other now asks for more seats than remain.
C1_Witness ==
    \E p, q \in Sessions :
        /\ p # q
        /\ calls[p].pc = "returned" /\ calls[p].op = "make_reservation"
        /\ calls[p].result.success
        /\ calls[q].pc = "checked"
        /\ calls[q].args.restaurant_id = calls[p].args.restaurant_id
        /\ calls[q].rounded_time = calls[p].result.time
        /\ calls[q].args.party_size >
              CapacityOf(calls[q].args.restaurant_id)
                - Booked(calls[q].args.restaurant_id, calls[q].args.date,
                         calls[q].rounded_time)

(***************************************************************************)
(* C2                                                                      *)
(***************************************************************************)

\* C2: the transactions of concurrent make_reservation calls do not
\* interleave: at most one call is between BEGIN EXCLUSIVE and its commit or
\* rollback, it holds the lock, the booked total it has read is the total
\* committed now (no other call committed since the read), and a row it has
\* inserted fits into the capacity that is left now.
C2_Linearized ==
    /\ \A p, q \in Sessions : InTransaction(p) /\ InTransaction(q) => p = q
    /\ \A p \in Sessions : InTransaction(p) => db_lock = p
    /\ \A p \in Sessions :
          calls[p].pc \in {"read", "inserted"} =>
              calls[p].total_booked =
                  Booked(calls[p].args.restaurant_id, calls[p].args.date,
                         calls[p].rounded_time)
    /\ \A p \in Sessions :
          calls[p].pc = "inserted" =>
              calls[p].args.party_size <=
                  CapacityOf(calls[p].args.restaurant_id)
                    - Booked(calls[p].args.restaurant_id, calls[p].args.date,
                             calls[p].rounded_time)

\* One call has read the booked total of a Slot inside its transaction
\* while another call, past its outer check for the same Slot, waits for
\* the lock; together they ask for more seats than remain.
C2_Witness ==
    \E p, q \in Sessions :
        /\ p # q
        /\ calls[p].pc = "read"
        /\ calls[q].pc = "checked"
        /\ calls[q].args.restaurant_id = calls[p].args.restaurant_id
        /\ calls[q].rounded_time = calls[p].rounded_time
        /\ calls[p].args.party_size + calls[q].args.party_size >
              CapacityOf(calls[p].args.restaurant_id) - calls[p].total_booked
        /\ Len(reservations) > 0

(***************************************************************************)
(* C3                                                                      *)
(***************************************************************************)

\* the next step of a call that is past its in-transaction read while the
\* Slot has fewer seats left than it asks for
C3_Step(p) ==
    LET a == calls[p].args
        left == CapacityOf(a.restaurant_id)
                  - Booked(a.restaurant_id, a.date, calls[p].rounded_time)
    IN  ( /\ calls[p].pc = "read"
          /\ left < a.party_size
          /\ calls'[p] # calls[p] )
        => /\ calls'[p].pc = "returned"
           /\ calls'[p].result.success = FALSE
           /\ calls'[p].result.message.kind = "became_fully_booked"
           /\ calls'[p].result.message.available_capacity = left
           /\ reservations' = reservations
           /\ db_lock' = 0

\* C3: a call that passed the outer availability check and finds, at its
\* read inside the exclusive transaction, fewer seats left than its
\* party_size inserts nothing, rolls back (the lock is free again) and
\* returns success = false with the message that the restaurant became fully
\* booked while processing, which reports the seats left.
C3_RecheckInTransaction == [][\A p \in Sessions : C3_Step(p)]_vars

\* A call was refused by the check inside its transaction.
C3_Witness ==
    \E p \in Sessions :
        /\ calls[p].pc = "returned" /\ calls[p].op = "make_reservation"
        /\ calls[p].result.message.kind = "became_fully_booked"
        /\ Len(reservations) > 0
        /\ db_lock = 0

(***************************************************************************)
(* C4                                                                      *)
(***************************************************************************)

\* what C4 says of one step of session p
C4_Step(p) ==
    LET c == calls'[p]
        a == calls'[p].args
        n == Len(reservations)
    IN  /\ ( Ends(p, "make_reservation") /\ c.pc = "returned" /\ ~c.result.success )
            => reservations' = reservations
        /\ ( Ends(p, "make_reservation") /\ (a.user_name = "" \/ a.user_phone = "") )
            => /\ calls[p].pc = "idle"
               /\ c.pc = "returned"
               /\ ~c.result.success
               /\ c.result.message.kind = "name_phone_required"
        /\ ( Ends(p, "make_reservation") /\ c.pc = "returned" /\ c.result.success )
            => /\ Len(reservations') = n + 1
               /\ SubSeq(reservations', 1, n) = reservations
               /\ reservations'[n + 1].restaurant_id = a.restaurant_id
               /\ reservations'[n + 1].booking_date = a.date
               /\ reservations'[n + 1].booking_time = SlotTime(a.time)
               /\ reservations'[n + 1].party_size = a.party_size
        /\ ( Ends(p, "make_reservation") /\ c.pc = "raised" )
            => /\ db_lock \notin {0, p}
               /\ reservations' = reservations

\* C4: a make_reservation call that returns a negative result leaves the
\* committed reservations as they were; a call with an empty user_name or
\* user_phone is rejected in its first step, with the name-and-phone message,
\* whatever its other arguments and whoever holds the lock; a call that
\* returns success has added exactly one reservation, for the restaurant,
\* date, rounded time and party_size it was asked for; and the only call that
\* ends in an exception is one whose outer check met a locked database: too
\* little capacity always ends in a returned negative result.
C4_NegativeResultsChangeNothing ==
    [][ /\ \A p \in Sessions : C4_Step(p)
        /\ reservations' # reservations =>
               \E q \in Sessions : /\ Ends(q, "make_reservation")
                                    /\ calls'[q].pc = "returned"
                                    /\ calls'[q].result.success ]_vars

\* A call with an empty phone number has been refused while another session
\* is inside its transaction and the ledger holds a reservation.
C4_Witness ==
    \E p, q \in Sessions :
        /\ calls[p].pc = "returned" /\ calls[p].op = "make_reservation"
        /\ calls[p].result.message.kind = "name_phone_required"
        /\ calls[p].args.user_phone = ""
        /\ InTransaction(q)
        /\ Len(reservations) > 0

(***************************************************************************)
(* C5                                                                      *)
(***************************************************************************)

\* the last call of the one session: a make_reservation with a name and a
\* phone number, for a positive party in a Slot of a restaurant of the catalog
C5_BookingReturned ==
    LET c == calls[SeqSession]
    IN  /\ c.pc = "returned" /\ c.op = "make_reservation"
        /\ c.args.user_name # "" /\ c.args.user_phone # ""
        /\ c.args.party_size > 0
        /\ KnownRestaurant(c.args.restaurant_id)
        /\ IsClockTime(c.args.time)

\* C5: with one session calling after the other has returned, a
\* make_reservation with a name and a phone number succeeds exactly when its
\* party_size is at most the capacity less the seats booked in the Slot
\* before the call; a success appends the reservation, and a refusal while
\* seats remain says how many remain (capacity 4, 3 booked: a party of 2 is
\* refused with 1 seat remaining, a party of 1 is accepted and the Slot is
\* full).
C5_SequentialBookings ==
    C5_BookingReturned =>
        LET c == calls[SeqSession]
            a == c.args
            slot == SlotTime(a.time)
            capacity == CapacityOf(a.restaurant_id)
            booked_now == Booked(a.restaurant_id, a.date, slot)
            booked_before ==
                IF c.result.success THEN booked_now - a.party_size ELSE booked_now
            n == Len(reservations)
        IN  /\ c.result.success <=> a.party_size <= capacity - booked_before
            /\ c.result.success =>
                  /\ n > 0
                  /\ reservations[n].restaurant_id = a.restaurant_id
                  /\ reservations[n].booking_date = a.date
                  /\ reservations[n].booking_time = slot
                  /\ reservations[n].party_size = a.party_size
                  /\ booked_before >= 0
            /\ ( ~c.result.success /\ a.party_size <= capacity
                    /\ booked_before < capacity ) =>
                  /\ c.result.message.kind = "only_space_for"
                  /\ c.result.message.available_capacity = capacity - booked_before

\* At the capacity-4 restaurant a party of 3 and then a party of 1 have been
\* booked into one Slot, which is now full; the last call succeeded.
C5_Witness ==
    /\ C5_BookingReturned
    /\ calls[SeqSession].result.success
    /\ calls[SeqSession].args.party_size = 1
    /\ Len(reservations) = 2
    /\ reservations[1].restaurant_id = "r1" /\ reservations[1].party_size = 3
    /\ reservations[2].restaurant_id = "r1" /\ reservations[2].party_size = 1
    /\ Booked("r1", reservations[2].booking_date, reservations[2].booking_time) = 4

(***************************************************************************)
(* C6                                                                      *)
(***************************************************************************)

\* the last call of the one session: a check_availability for a positive
\* party, a restaurant of the catalog and a time of the 24-hour clock
C6_CheckReturned ==
    LET c == calls[SeqSession]
    IN  /\ c.pc = "returned" /\ c.op = "check_availability"
        /\ c.args.party_size > 0
        /\ KnownRestaurant(c.args.restaurant_id)
        /\ IsClockTime(c.args.time)

\* seats left in the Slot the last check asked about
C6_Left ==
    LET a == calls[SeqSession].args
    IN  CapacityOf(a.restaurant_id) - Booked(a.restaurant_id, a.date, SlotTime(a.time))

\* C6 as stated: every such check reports available = (capacity - booked >=
\* party_size) and available_capacity = capacity - booked.
C6_AsStated ==
    C6_CheckReturned =>
        LET r == calls[SeqSession].result
        IN  /\ r.available = (C6_Left >= calls[SeqSession].args.party_size)
            /\ "available_capacity" \in DOMAIN r
            /\ r.available_capacity = C6_Left

\* C6, amended: every such check reports available = (capacity - booked >=
\* party_size); when party_size is at most the capacity it also reports
\* available_capacity = capacity - booked and the rounded time; when
\* party_size exceeds the capacity the result is negative, carries the
\* message about the total capacity and no available_capacity.
C6_AvailabilityReport ==
    C6_CheckReturned =>
        LET r == calls[SeqSession].result
            a == calls[SeqSession].args
        IN  /\ r.available = (C6_Left >= a.party_size)
            /\ a.party_size <= CapacityOf(a.restaurant_id) =>
                  /\ "available_capacity" \in DOMAIN r
                  /\ r.available_capacity = C6_Left
                  /\ r.restaurant_capacity = CapacityOf(a.restaurant_id)
                  /\ r.time = SlotTime(a.time)
                  /\ r.available => r.message.kind = "available"
                  /\ ~r.available => r.message.kind \in {"fully_booked", "only_space_for"}
            /\ a.party_size > CapacityOf(a.restaurant_id) =>
                  /\ "available_capacity" \notin DOMAIN r
                  /\ r.message.kind = "max_total"
                  /\ r.message.restaurant_capacity = CapacityOf(a.restaurant_id)

\* With seats booked in the 10:00 Slot of the capacity-4 restaurant, a check
\* for another Slot of it and a party of 4 is answered: available, 4 seats.
C6_Witness ==
    /\ C6_CheckReturned
    /\ calls[SeqSession].args.restaurant_id = "r1"
    /\ calls[SeqSession].args.party_size = 4
    /\ calls[SeqSession].result.available
    /\ calls[SeqSession].result.available_capacity = 4
    /\ Len(reservations) > 0
    /\ reservations[1].restaurant_id = "r1"
    /\ reservations[1].booking_time # SlotTime(calls[SeqSession].args.time)

(***************************************************************************)
(* C7                                                                      *)
(***************************************************************************)

\* what C7 says of one step of session p
C7_Step(p) ==
    LET c == calls'[p]
        a == calls'[p].args
    IN  ( /\ Ends(p, "check_availability")
          /\ \/ a.party_size <= 0
             \/ ~KnownRestaurant(a.restaurant_id)
             \/ ~IsClockTime(a.time) )
        => /\ calls[p].pc = "idle"
           /\ c.pc = "returned"
           /\ c.result.available = FALSE
           /\ c.result.message.kind =
                 ( IF a.party_size <= 0 THEN "party_size_positive"
                   ELSE IF ~KnownRestaurant(a.restaurant_id) THEN "restaurant_not_found"
                   ELSE IF a.party_size > CapacityOf(a.restaurant_id) THEN "max_total"
                   ELSE "invalid_time" )
           /\ "available_capacity" \notin DOMAIN c.result
           /\ reservations' = reservations
           /\ db_lock' = db_lock

RegistryNames == {"find_restaurant", "check_availability", "make_reservation"}

\* the text carries a directive: an object with a name and parameters
IsDirective(text) ==
    /\ text.kind = "model_text"
    /\ text.json = "object"
    /\ text.function_call.type = "object"

NamesKnownOperation(text) ==
    /\ text.function_call.name.type = "str"
    /\ text.function_call.name.value \in RegistryNames

\* a directive whose name, a text or no name at all, is not in the registry
IsUnknownDirective(text) ==
    /\ IsDirective(text)
    /\ text.function_call.name.type \in {"str", "null"}
    /\ ~NamesKnownOperation(text)

IsKnownDirective(text) == IsDirective(text) /\ NamesKnownOperation(text)

\* a known directive with every argument of the operation, the time a text
IsValidDirective(text) ==
    /\ IsKnownDirective(text)
    /\ text.function_call.parameters.type = "object"
    /\ text.function_call.parameters.time = "str"

\* where the history of the current user turn starts
TurnStart ==
    CHOOSE i \in 1..Len(llm_messages) :
        /\ llm_messages[i].content.kind = "user_input"
        /\ \A j \in (i + 1)..Len(llm_messages) :
              llm_messages[j].content.kind # "user_input"

\* the model turns of the current user turn
TurnTexts ==
    { i \in (TurnStart + 1)..Len(llm_messages) : llm_messages[i].role = "assistant" }

\* the synthetic turns of the current user turn that hold a dispatch outcome
TurnOutcomes ==
    { i \in (TurnStart + 1)..Len(llm_messages) :
        /\ llm_messages[i].role = "user"
        /\ llm_messages[i].content.kind \in
              {"function_result", "error_calling_function"} }

(***************************************************************************)
(* C8: when every request of a user turn returns a valid directive with a  *)
(* known operation name, the turn performs exactly MAX_SEQUENTIAL_CALLS    *)
(* tool dispatches and then stops, and the final answer shown to the user  *)
(* is the last text the model produced.                                    *)
(* The code stops after the dispatches with no final answer at all.        *)
(***************************************************************************)

\* the turn has stopped and each of its requests returned a valid directive
C8_StoppedOnDirectivesOnly ==
    /\ orch_pc = "done"
    /\ requests >= 1
    /\ Cardinality(TurnTexts) = requests
    /\ \A i \in TurnTexts : IsValidDirective(llm_messages[i].content)

C8_AsStated ==
    C8_StoppedOnDirectivesOnly =>
        /\ invocations = MAX_SEQUENTIAL_CALLS
        /\ requests = MAX_SEQUENTIAL_CALLS
        /\ final_assistant_response = assistant_response
        /\ final_assistant_response # None

(***************************************************************************)
(* C9: on a completion whose directive names an operation that is not in   *)
(* the registry, no tool is invoked, the iteration counter is not          *)
(* incremented, the model text and then a synthetic user turn describing   *)
(* the invalid operation are appended to the history, the loop ends at     *)
(* once with no further request, and the final answer is the model's own   *)
(* text of that iteration.                                                 *)
(***************************************************************************)

C9_Step ==
    /\ (requests' = requests + 1 /\ IsUnknownDirective(response')) =>
          /\ invocations' = invocations
          /\ calls' = calls
          /\ reservations' = reservations
          /\ tool_call_count' = tool_call_count
          /\ Len(llm_messages') = Len(llm_messages) + 2
          /\ SubSeq(llm_messages', 1, Len(llm_messages)) = llm_messages
          /\ llm_messages'[Len(llm_messages) + 1] =
                [role |-> "assistant", content |-> response']
          /\ llm_messages'[Len(llm_messages) + 2].role = "user"
          /\ llm_messages'[Len(llm_messages) + 2].content =
                [kind |-> "invalid_function_name",
                 name |-> response'.function_call.name]
          /\ orch_pc' = "done"
          /\ final_assistant_response' = response'
    /\ (orch_pc = "done" /\ IsUnknownDirective(response)) =>
          /\ requests' = requests
          /\ invocations' = invocations
          /\ llm_messages' = llm_messages
          /\ orch_pc' = "idle"
          /\ messages' = Append(messages,
                            [role |-> "assistant", content |-> response])

C9_UnknownOperationEndsTurn == [][C9_Step]_vars

\* an unknown operation was named after two dispatches, and the turn is over
C9_Witness ==
    /\ orch_pc = "done"
    /\ IsUnknownDirective(response)
    /\ tool_call_count = 2
    /\ invocations = 2
    /\ final_assistant_response = response

(***************************************************************************)
(* C10: when a completion carries a directive with a known name, the model *)
(* text and then the dispatch outcome are appended to the history, the     *)
(* iteration counter goes up by exactly one and the loop returns to        *)
(* Requesting (or stops on its bound), whatever the tool did; the turn is  *)
(* never Aborted by it.                                                    *)
(* The code aborts the turn when the parameters of the directive are null  *)
(* or its time is not a text.                                              *)
(***************************************************************************)

C10_AsStated ==
    ( /\ orch_pc \in {"requesting", "done", "aborted"}
      /\ response.kind = "model_text"
      /\ IsKnownDirective(response) ) =>
        /\ orch_pc # "aborted"
        /\ (orch_pc = "done" => tool_call_count = MAX_SEQUENTIAL_CALLS)
        /\ Len(llm_messages) >= 2
        /\ llm_messages[Len(llm_messages) - 1] =
              [role |-> "assistant", content |-> response]
        /\ Len(llm_messages) \in TurnOutcomes
        /\ tool_call_count = Cardinality(TurnOutcomes)
        /\ tool_call_count = Cardinality(TurnTexts)

(***************************************************************************)
(* C11: when the extractor finds no directive in the cleaned completion    *)
(* (none in the text, or one that is not valid structured data), this is   *)
(* no error: exactly one model turn holding the text is appended to the    *)
(* history, the orchestrator moves to Done, no tool is invoked and the     *)
(* text is the final answer.                                               *)
(***************************************************************************)

\* the text holds no directive: nothing that looks like one, something that
\* does not parse, or an object without a value under "function_call"
IsNoDirective(text) ==
    /\ text.kind = "model_text"
    /\ \/ text.json \in {"none", "invalid"}
       \/ text.json = "object" /\ text.function_call.type = "null"

C11_Step ==
    /\ (requests' = requests + 1 /\ IsNoDirective(response')) =>
          /\ llm_messages' =
                Append(llm_messages, [role |-> "assistant", content |-> response'])
          /\ orch_pc' = "done"
          /\ final_assistant_response' = response'
          /\ invocations' = invocations
          /\ tool_call_count' = tool_call_count
          /\ calls' = calls
          /\ reservations' = reservations
    /\ (orch_pc = "done" /\ IsNoDirective(response)) =>
          /\ messages' = Append(messages,
                            [role |-> "assistant", content |-> response])
          /\ llm_messages' = llm_messages
          /\ requests' = requests
          /\ invocations' = invocations

C11_NoDirectiveIsTheAnswer == [][C11_Step]_vars

\* after one dispatch the model answered with a text whose directive does
\* not parse; the text is the final answer
C11_Witness ==
    /\ orch_pc = "done"
    /\ IsNoDirective(response)
    /\ response.json = "invalid"
    /\ tool_call_count = 1
    /\ final_assistant_response = response
    /\ llm_messages[Len(llm_messages)] = [role |-> "assistant", content |-> response]

(***************************************************************************)
(* C12: when the request for a completion fails, the orchestrator moves to *)
(* Aborted, what the user sees is the failure message, no turn is appended *)
(* to the history in that iteration or later in the turn, and the loop     *)
(* makes no further request.                                               *)
(***************************************************************************)

C12_Step ==
    /\ (requests' = requests + 1 /\ response'.kind = "request_failed") =>
          /\ orch_pc' = "aborted"
          /\ final_assistant_response' = [kind |-> "error_generating_response"]
          /\ llm_messages' = llm_messages
          /\ messages' = messages
          /\ tool_call_count' = tool_call_count
          /\ invocations' = invocations
          /\ calls' = calls
          /\ reservations' = reservations
    /\ (orch_pc = "aborted" /\ response.kind = "request_failed") =>
          /\ llm_messages' = llm_messages
          /\ requests' = requests
          /\ invocations' = invocations
          /\ orch_pc' = "idle"
          /\ messages' =
                Append(messages, [role |-> "assistant",
                                  content |-> [kind |-> "error_generating_response"]])

C12_RequestFailureAborts == [][C12_Step]_vars

\* the third request of a turn failed: the history holds the user message
\* and the turns of the two dispatches, and nothing of the failed iteration
C12_Witness ==
    /\ orch_pc = "aborted"
    /\ response.kind = "request_failed"
    /\ requests = 3
    /\ tool_call_count = 2
    /\ Len(llm_messages) = 5
    /\ final_assistant_response = [kind |-> "error_generating_response"]

(***************************************************************************)
(* C13: a failed completion request is the only way a turn ends without    *)
(* content written by the model: in every terminal state of a turn in      *)
(* which no request failed, whatever the shape of the directive or of its  *)
(* parameters, the final output is a text of the model, never an error     *)
(* message and never absent.                                               *)
(* The code ends such turns with an error message when the handling of the *)
(* directive raises, and with no output when the loop ends on its bound.   *)
(***************************************************************************)

\* the turn is over and its last request returned a completion
C13_EndedWithoutRequestFailure ==
    /\ orch_pc \in {"done", "aborted"}
    /\ response.kind = "model_text"

C13_AsStated ==
    C13_EndedWithoutRequestFailure =>
        /\ final_assistant_response # None
        /\ final_assistant_response.kind = "model_text"
        /\ orch_pc = "done"

(***************************************************************************)
(* C14: for every directive with a known name whose parameters include a   *)
(* time, the operation that is invoked receives a canonical on-the-hour    *)
(* time HH:00, for every value of the time.                                *)
(* The code passes on unchanged a time that the rounding rule rejects.     *)
(***************************************************************************)

IsOnTheHour(t) == \E h \in 0..23 : t = TwoDigits(h) \o <<":", "0", "0">>

\* the time the model gave in the directive being dispatched
C14_GivenTime == response.function_call.parameters.args.time

\* the time the invoked operation was called with
C14_ReceivedTime == calls[SeqSession].args.time

C14_AsStated ==
    orch_pc = "dispatching" => IsOnTheHour(C14_ReceivedTime)

\* C14 as the code has it: the invoked operation receives the on-the-hour
\* time of the Slot when the given time is a time of the 24-hour clock, and
\* the given text unchanged when it is not.
C14_TimeAtDispatch ==
    orch_pc = "dispatching" =>
        /\ calls[SeqSession].op = response.function_call.name.value
        /\ IF IsClockTime(C14_GivenTime)
           THEN C14_ReceivedTime = SlotTime(C14_GivenTime) /\ IsOnTheHour(C14_ReceivedTime)
           ELSE C14_ReceivedTime = C14_GivenTime

\* make_reservation was asked for 19:40 and is running with 20:00
C14_Witness ==
    /\ orch_pc = "dispatching"
    /\ calls[SeqSession].op = "make_reservation"
    /\ calls[SeqSession].pc = "begun"
    /\ C14_GivenTime = <<"1","9",":","4","0">>
    /\ C14_ReceivedTime = <<"2","0",":","0","0">>

(***************************************************************************)
(* C15: round_time_to_nearest_hour returns none unless its input is two    *)
(* numeric fields separated by ':' with hour in 0..23 and minute in 0..59  *)
(* ("9:5" and "24:00" give none); otherwise it returns hour+1 modulo 24    *)
(* with minute 00 when minute >= 30 and the same hour with minute 00 when  *)
(* minute < 30.                                                            *)
(* The code also accepts such a text followed by a newline.                *)
(***************************************************************************)

\* the call of the rounding that has returned, if any
C15_Call == calls[SeqSession]

C15_Rounded ==
    C15_Call.pc = "returned" /\ C15_Call.op = "round_time_to_nearest_hour"

C15_AsStated ==
    C15_Rounded =>
        C15_Call.result.rounded =
            ( IF IsClockTime(C15_Call.args.time)
              THEN SlotTime(C15_Call.args.time)
              ELSE None )

(***************************************************************************)
(* C16: rounding is idempotent: for every time t the rounding accepts, the *)
(* result of rounding is itself accepted and returned unchanged,           *)
(* round(round(t)) = round(t).                                             *)
(***************************************************************************)

\* this step gives the rounding the time an earlier rounding returned
C16_RoundsAgain ==
    /\ C15_Rounded
    /\ C15_Call.result.rounded # None
    /\ calls'[SeqSession].pc = "returned"
    /\ calls'[SeqSession].op = "round_time_to_nearest_hour"
    /\ calls'[SeqSession].args.time = C15_Call.result.rounded

C16_Step ==
    C16_RoundsAgain => calls'[SeqSession].result.rounded = C15_Call.result.rounded

C16_RoundingIsIdempotent == [][C16_Step]_vars

\* "00:00", what 23:45 rounds to, was given to the rounding and came back
C16_Witness ==
    /\ C15_Rounded
    /\ C15_Call.args.time = <<"0","0",":","0","0">>
    /\ C15_Call.result.rounded = <<"0","0",":","0","0">>

(***************************************************************************)
(* What the claims on find_restaurant are stated with                      *)
(***************************************************************************)

\* the find_restaurant call that has returned, if any
FoundCall == calls[SeqSession]

FindReturned == FoundCall.pc = "returned" /\ FoundCall.op = "find_restaurant"

\* the answer is the no-results signal, not a list
IsNoResultsSignal(result) == result.type = "str"

\* restaurant r passes every filter that request a provides: name and
\* location as case-insensitive parts of r's, one of the tags equal to one
\* of r's up to case, and a party size that is positive and within capacity
SatisfiesFilters(r, a) ==
    /\ a.name # None => Contains(Lower(r.name), Lower(a.name))
    /\ a.location # None => Contains(Lower(r.location), Lower(a.location))
    /\ a.tags # None =>
          \E k \in 1..Len(a.tags), j \in 1..Len(r.tags) :
              Lower(a.tags[k]) = Lower(r.tags[j])
    /\ a.party_size # None =>
          (a.party_size[1] > 0 /\ a.party_size[1] <= r.capacity)

(***************************************************************************)
(* C17: find_restaurant with a party_size that is zero or negative returns *)
(* the no-results signal, whatever the other filters are, and also when no *)
(* other filter is given.                                                  *)
(* The code takes a party_size of zero as no party_size at all.            *)
(***************************************************************************)

C17_AsStated ==
    ( /\ FindReturned
      /\ FoundCall.args.party_size # None
      /\ FoundCall.args.party_size[1] <= 0 ) =>
        IsNoResultsSignal(FoundCall.result.result)

(***************************************************************************)
(* C18: find_restaurant returns exactly the restaurants that satisfy every *)
(* provided filter: the whole catalog with no filter, no restaurant whose  *)
(* tags match none of the given tags whatever name and location say, and   *)
(* the no-results signal, not an empty list, when nothing matches.         *)
(* The code does not apply the party-size filter to a party_size of zero.  *)
(***************************************************************************)

\* the places in the catalog of the restaurants the request asks for
C18_Expected ==
    { i \in 1..Len(ALL_RESTAURANTS) :
        SatisfiesFilters(ALL_RESTAURANTS[i], FoundCall.args) }

CalendarDates == {"2025-06-01"}

IsCalendarDate(date) == date \in CalendarDates

C19_Call == calls[SeqSession]

C19_IsNegative(c) ==
    IF c.op = "check_availability" THEN c.result.available = FALSE
    ELSE c.result.success = FALSE

C19_AsStated ==
    /\ ( /\ C19_Call.pc = "returned"
         /\ C19_Call.op \in {"check_availability", "make_reservation"}
         /\ ~IsCalendarDate(C19_Call.args.date) ) => C19_IsNegative(C19_Call)
    /\ \A k \in 1..Len(reservations) : IsCalendarDate(reservations[k].booking_date)

(***************************************************************************)
(* C20: the ledger is append-only: a reservation is created only by a      *)
(* make_reservation call that returns success, no operation changes or     *)
(* removes a committed reservation, and reservation ids are assigned in    *)
(* strictly increasing order of commit, so no two reservations share one.  *)
(***************************************************************************)

\* session p's make_reservation returns success in this step
C20_ReturnsSuccess(p) ==
    /\ calls[p].op = "make_reservation"
    /\ calls[p].pc # "returned"
    /\ calls'[p].op = "make_reservation"
    /\ calls'[p].pc = "returned"
    /\ calls'[p].result.success = TRUE

C20_Step ==
    LET n == Len(reservations) IN
    /\ Len(reservations') >= n
    /\ SubSeq(reservations', 1, n) = reservations
    /\ Len(reservations') <= n + 1
    /\ Len(reservations') = n + 1 =>
          /\ \E p \in Sessions :
                /\ C20_ReturnsSuccess(p)
                /\ calls'[p].result.reservation_id = << "res", reservations'[n + 1].id >>
          /\ \A k \in 1..n : reservations[k].id < reservations'[n + 1].id
    /\ (\E p \in Sessions : C20_ReturnsSuccess(p)) => Len(reservations') = n + 1

C20_AppendOnlyLedger == [][C20_Step]_vars

\* two reservations are committed, with ids 1 and 2, and a later booking of
\* some session has been refused
C20_Witness ==
    /\ Len(reservations) = 2
    /\ reservations[1].id = 1
    /\ reservations[2].id = 2
    /\ \E p \in Sessions :
          /\ calls[p].pc = "returned"
          /\ calls[p].op = "make_reservation"
          /\ calls[p].result.success = FALSE
    /\ \E p \in Sessions :
          /\ calls[p].pc = "returned"
          /\ calls[p].op = "find_restaurant"

(***************************************************************************)
(* C21: on success make_reservation returns the store-assigned reservation *)
(* id and a confirmation message that contains all of: restaurant name,    *)
(* date, rounded time, party size and user name.                           *)
(* The message of the code does not contain the user name.                 *)
(***************************************************************************)

\* session p's make_reservation has returned success
C21_Succeeded(p) ==
    /\ calls[p].pc = "returned"
    /\ calls[p].op = "make_reservation"
    /\ calls[p].result.success = TRUE

\* the result of session p carries the id of a committed row that holds the
\* request, and its message names restaurant, date, rounded time and party
C21_IdAndMessage(p) ==
    LET a == calls[p].args
        result == calls[p].result
    IN  /\ result.reservation_id[1] = "res"
        /\ \E k \in 1..Len(reservations) :
              /\ reservations[k].id = result.reservation_id[2]
              /\ reservations[k].restaurant_id = a.restaurant_id
              /\ reservations[k].booking_date = a.date
              /\ reservations[k].booking_time = SlotTime(a.time)
              /\ reservations[k].party_size = a.party_size
              /\ reservations[k].user_name = a.user_name
        /\ result.message.kind = "confirmed"
        /\ \E i \in 1..Len(ALL_RESTAURANTS) :
              /\ ALL_RESTAURANTS[i].id = a.restaurant_id
              /\ result.message.restaurant_name = ALL_RESTAURANTS[i].name
        /\ result.message.date = a.date
        /\ result.message.time = SlotTime(a.time)
        /\ result.message.party_size = a.party_size

C21_AsStated ==
    \A p \in Sessions :
        C21_Succeeded(p) =>
            /\ C21_IdAndMessage(p)
            /\ "user_name" \in DOMAIN calls[p].result.message
            /\ calls[p].result.message.user_name = calls[p].args.user_name

\* C21 as the code has it: on success the result carries "res" and the id
\* of the committed row, and a message with restaurant name, party size,
\* date and rounded time; the user name is not part of the message.
C21_SuccessResult ==
    \A p \in Sessions :
        C21_Succeeded(p) =>
            /\ C21_IdAndMessage(p)
            /\ "user_name" \notin DOMAIN calls[p].result.message

\* the second reservation of the ledger was asked for 10:15 and confirmed
\* for 10:00 as "res2"
C21_Witness ==
    \E p \in Sessions :
        /\ C21_Succeeded(p)
        /\ calls[p].args.time = <<"1","0",":","1","5">>
        /\ calls[p].result.message.time = <<"1","0",":","0","0">>
        /\ calls[p].result.reservation_id = << "res", 2 >>

(***************************************************************************)
(* C22: no automatic retry: within a turn each completion leads to at most *)
(* one tool invocation, a failed invocation is not issued again by the     *)
(* system, a failed completion request is not issued again, and the number *)
(* of tool invocations of the turn equals the iteration counter and is at  *)
(* most the number of completions obtained.                                *)
(***************************************************************************)

\* the step stays within the current user turn
C22_SameTurn == user_turns' = user_turns

C22_Step ==
    /\ C22_SameTurn =>
          /\ invocations' \in {invocations, invocations + 1}
          /\ invocations' = invocations + 1 =>
                (requests' = requests + 1 /\ response'.kind = "model_text")
          /\ response.kind = "request_failed" =>
                (requests' = requests /\ invocations' = invocations)
    /\ invocations' =
          ( IF orch_pc' = "dispatching" THEN tool_call_count' + 1
            ELSE tool_call_count' )
    /\ invocations' <=
          ( IF response'.kind = "request_failed" THEN requests' - 1 ELSE requests' )

C22_NoAutomaticRetry == [][C22_Step]_vars

\* a call of a tool raised, the model was asked again and a second tool
\* call has returned: two invocations, two completions
C22_Witness ==
    /\ orch_pc = "requesting"
    /\ requests = 2
    /\ invocations = 2
    /\ tool_call_count = 2
    /\ llm_messages[3].content.kind = "error_calling_function"
    /\ llm_messages[5].content.kind = "function_result"

(***************************************************************************)
(* C23: a check_availability or make_reservation for date D with a time in *)
(* 23:30..23:59 is evaluated against, and committed into, the Slot         *)
(* (restaurant, D, 00:00) of the same date D: the date is never advanced,  *)
(* so the booking shares capacity with the requests for D at 00:00-00:29.  *)
(***************************************************************************)

Midnight == <<"0","0",":","0","0">>

\* a time of hour 23 whose minute is 30 or more
C23_LastHalfHour(time) ==
    \E m \in 30..59 : time = <<"2","3",":">> \o TwoDigits(m)

\* a time of hour 00 whose minute is below 30
C23_FirstHalfHour(time) ==
    \E m \in 0..29 : time = <<"0","0",":">> \o TwoDigits(m)

C23_Step ==
    LET c == calls[SeqSession]
        d == calls'[SeqSession]
        a == d.args
        left == CapacityOf(a.restaurant_id) - Booked(a.restaurant_id, a.date, Midnight)
    IN  \* a check is answered from the Slot (restaurant, D, 00:00)
        /\ (Ends(SeqSession, "check_availability") /\ d.pc = "returned"
              /\ C23_LastHalfHour(a.time))
           => /\ d.result.time = Midnight
              /\ d.result.available_capacity = left
              /\ d.result.available = (left >= a.party_size)
        \* a booking succeeds exactly when that Slot has room
        /\ (Ends(SeqSession, "make_reservation") /\ d.pc = "returned"
              /\ C23_LastHalfHour(a.time))
           => d.result.success = (left >= a.party_size)
        \* and its row is committed into that Slot, with the date as given
        /\ (reservations' # reservations /\ C23_LastHalfHour(c.args.time))
           => /\ Len(reservations') = Len(reservations) + 1
              /\ reservations'[Len(reservations')].restaurant_id = c.args.restaurant_id
              /\ reservations'[Len(reservations')].booking_date = c.args.date
              /\ reservations'[Len(reservations')].booking_time = Midnight
              /\ \A k \in 1..Len(reservations) : reservations'[k] = reservations[k]
        \* a request for D at 00:00-00:29 is answered from the same Slot
        /\ (Ends(SeqSession, "check_availability") /\ d.pc = "returned"
              /\ C23_FirstHalfHour(a.time))
           => /\ d.result.time = Midnight
              /\ d.result.available_capacity = left

C23_MidnightKeepsDate == [][C23_Step]_vars

\* a table was booked out for D at 23:45 and a check for D at 00:10 is
\* answered "nothing left", while the Slot at 00:00 of the next date is empty
C23_Witness ==
    /\ \E k \in 1..Len(reservations) :
          /\ reservations[k].booking_date = "2025-06-01"
          /\ reservations[k].booking_time = Midnight
    /\ \A k \in 1..Len(reservations) : reservations[k].booking_date = "2025-06-01"
    /\ calls[SeqSession].pc = "returned"
    /\ calls[SeqSession].op = "check_availability"
    /\ calls[SeqSession].args.date = "2025-06-01"
    /\ calls[SeqSession].args.time = <<"0","0",":","1","0">>
    /\ calls[SeqSession].result.available_capacity = 0
    /\ Booked("r2", "2025-06-01", Midnight) = CapacityOf("r2")
    /\ Booked("r2", "2025-06-02", Midnight) = 0

(***************************************************************************)
(* C24: every user turn ends (Done or Aborted) after at most               *)
(* MAX_SEQUENTIAL_CALLS completion requests, provided each request returns *)
(* or fails; the iteration counter starts at 0 for each turn, only         *)
(* increases, increases only on a tool dispatch, and never exceeds         *)
(* MAX_SEQUENTIAL_CALLS.                                                   *)
(***************************************************************************)

C24_InTurn == orch_pc \in {"requesting", "dispatching"}

C24_Ended == orch_pc \in {"done", "aborted"}

\* the counter and the requests of a turn stay within MAX_SEQUENTIAL_CALLS
C24_Bounded ==
    /\ tool_call_count \in 0..MAX_SEQUENTIAL_CALLS
    /\ requests \in 0..MAX_SEQUENTIAL_CALLS
    /\ tool_call_count <= invocations
    /\ orch_pc = "requesting" => requests < MAX_SEQUENTIAL_CALLS

\* the counter starts at 0 with the turn, and afterwards moves only by one,
\* upwards, in a step that ends the dispatch of a tool
C24_CounterStep ==
    /\ user_turns' # user_turns => tool_call_count' = 0 /\ requests' = 0
    /\ (user_turns' = user_turns /\ tool_call_count' # tool_call_count)
       => /\ tool_call_count' = tool_call_count + 1
          /\ \/ orch_pc = "dispatching"
             \/ invocations' = invocations + 1
    \* an ended turn requests nothing more
    /\ (C24_Ended /\ user_turns' = user_turns) => requests' = requests

C24_TurnEnds == C24_InTurn ~> C24_Ended

C24_Termination ==
    /\ []C24_Bounded
    /\ [][C24_CounterStep]_vars
    /\ C24_TurnEnds

\* a turn that ended because the loop ran out: MAX_SEQUENTIAL_CALLS requests,
\* each answered with a directive that was dispatched
C24_Witness ==
    /\ orch_pc = "done"
    /\ requests = MAX_SEQUENTIAL_CALLS
    /\ tool_call_count = MAX_SEQUENTIAL_CALLS
    /\ invocations = MAX_SEQUENTIAL_CALLS

(***************************************************************************)
(* C25: in every reachable state each committed reservation has a          *)
(* restaurant_id present in the catalog, a party_size with                 *)
(* 0 < party_size <= that restaurant's capacity, an on-the-hour time       *)
(* (HH:00 with HH in 00..23), and non-empty user_name and user_phone.      *)
(***************************************************************************)

C25_WellFormed(row) ==
    /\ KnownRestaurant(row.restaurant_id)
    /\ 0 < row.party_size
    /\ row.party_size <= CapacityOf(row.restaurant_id)
    /\ IsOnTheHour(row.booking_time)
    /\ row.user_name # ""
    /\ row.user_phone # ""

C25_WellFormedLedger ==
    \A k \in 1..Len(reservations) : C25_WellFormed(reservations[k])

\* rows were committed at both restaurants, and a booking that asked for an
\* unknown restaurant, for no seat, for a time off the clock or without a
\* name was just refused
C25_Witness ==
    /\ \E k \in 1..Len(reservations) : reservations[k].restaurant_id = "r1"
    /\ \E k \in 1..Len(reservations) : reservations[k].restaurant_id = "r2"
    /\ calls[SeqSession].pc = "returned"
    /\ calls[SeqSession].op = "make_reservation"
    /\ calls[SeqSession].result.success = FALSE
    /\ \/ ~KnownRestaurant(calls[SeqSession].args.restaurant_id)
       \/ calls[SeqSession].args.party_size = 0
       \/ ~IsClockTime(calls[SeqSession].args.time)
       \/ calls[SeqSession].args.user_name = ""

(***************************************************************************)
(* C26: find_restaurant and check_availability never change the ledger,    *)
(* and a successful make_reservation changes the booked total of exactly   *)
(* one Slot (its restaurant, date and rounded time), leaving the booked    *)
(* total and the availability answer of every other Slot unchanged; two    *)
(* requests whose times round to the same hour (09:45 and 10:15) use the   *)
(* same Slot and compete for the same capacity.                            *)
(***************************************************************************)

\* the Slots around the requests: every restaurant, the date asked for and
\* the next, the hours from 09:00 to 12:00
C26_Slots ==
    { <<ALL_RESTAURANTS[i].id, d, TwoDigits(h) \o <<":", "0", "0">> >> :
        i \in 1..Len(ALL_RESTAURANTS), d \in {"2025-06-01", "2025-06-02"}, h \in 9..12 }

\* seats booked in Slot s by the rows
C26_Booked(rows, s) == SumOver(rows, SlotRows(rows, s[1], s[2], s[3]))

\* what check_availability answers for Slot s and a party of n
C26_Answer(rows, s, n) == check_availability(rows, s[1], s[2], s[3], n)

C26_Step ==
    LET c == calls'[SeqSession]
        a == c.args
        booked == /\ Ends(SeqSession, "make_reservation")
                  /\ c.pc = "returned"
                  /\ c.result.success
        own == <<a.restaurant_id, a.date, SlotTime(a.time)>>
    IN  /\ (Ends(SeqSession, "find_restaurant") \/ Ends(SeqSession, "check_availability"))
           => reservations' = reservations
        /\ booked => own \in C26_Slots
        /\ \A s \in C26_Slots :
              IF booked /\ s = own
              THEN C26_Booked(reservations', s) = C26_Booked(reservations, s) + a.party_size
              ELSE /\ C26_Booked(reservations', s) = C26_Booked(reservations, s)
                   /\ \A n \in 1..CapacityOf(s[1]) :
                         C26_Answer(reservations', s, n) = C26_Answer(reservations, s, n)

\* 09:45 and 10:15 are answered alike, from the same Slot
C26_SameSlot ==
    \A i \in 1..Len(ALL_RESTAURANTS) : \A n \in 1..ALL_RESTAURANTS[i].capacity :
        /\ check_availability(reservations, ALL_RESTAURANTS[i].id, "2025-06-01",
                              <<"0","9",":","4","5">>, n)
           = check_availability(reservations, ALL_RESTAURANTS[i].id, "2025-06-01",
                              <<"1","0",":","1","5">>, n)
        /\ check_availability(reservations, ALL_RESTAURANTS[i].id, "2025-06-01",
                              <<"0","9",":","4","5">>, n).available
           = (C26_Booked(reservations, <<ALL_RESTAURANTS[i].id, "2025-06-01",
                                         <<"1","0",":","0","0">> >>) + n
                <= ALL_RESTAURANTS[i].capacity)

C26_SlotIsolation == []C26_SameSlot /\ [][C26_Step]_vars

\* a booking for 09:45 has just filled r2 at 10:00: a request for 10:15 finds
\* no seat there, while r2 at 11:00 and r1 at 10:00 answer as before
C26_Witness ==
    /\ calls[SeqSession].pc = "returned"
    /\ calls[SeqSession].op = "make_reservation"
    /\ calls[SeqSession].result.success
    /\ calls[SeqSession].args.restaurant_id = "r2"
    /\ calls[SeqSession].args.time = <<"0","9",":","4","5">>
    /\ ~check_availability(reservations, "r2", "2025-06-01",
                           <<"1","0",":","1","5">>, 1).available
    /\ check_availability(reservations, "r2", "2025-06-01",
                          <<"1","1",":","2","0">>, 2).available
    /\ C26_Booked(reservations, <<"r1", "2025-06-01", <<"1","0",":","0","0">> >>) = 2
    /\ check_availability(reservations, "r1", "2025-06-01",
                          <<"1","0",":","1","5">>, 2).available

(***************************************************************************)
(* C27: at most one make_reservation call holds the exclusive transaction  *)
(* at any time, and every call that acquires it ends it by commit          *)
(* (success) or rollback (failed re-check or captured failure) before it   *)
(* returns, so a finished call never keeps a later booking attempt from    *)
(* acquiring the transaction.                                              *)
(***************************************************************************)

\* the lock is held by exactly the session that is inside its transaction:
\* no two sessions are inside at once, and no session that is idle, before
\* its BEGIN, or finished holds it
C27_HeldInsideOnly ==
    /\ db_lock \in {0} \cup Sessions
    /\ \A p \in Sessions : (db_lock = p) <=> InTransaction(p)
    /\ \A p, q \in Sessions : InTransaction(p) /\ InTransaction(q) => p = q
    /\ (\A q \in Sessions : calls[q].pc \notin {"begun", "read", "inserted"})
       => \A p \in Sessions : LockGranted(p)

\* a session leaves its transaction only by returning, with the lock given
\* up: with success and its row committed, or with a negative result and
\* the ledger as it was
C27_Step ==
    \A p \in Sessions :
        (InTransaction(p) /\ calls'[p].pc \notin {"begun", "read", "inserted"})
        => /\ calls'[p].pc = "returned"
           /\ db_lock' = 0
           /\ IF calls'[p].result.success
              THEN /\ Len(reservations') = Len(reservations) + 1
                   /\ calls'[p].result.message.kind = "confirmed"
              ELSE /\ reservations' = reservations
                   /\ calls'[p].result.message.kind \in {"became_fully_booked", "failed"}

C27_TransactionReleased == []C27_HeldInsideOnly /\ [][C27_Step]_vars

\* one session's booking has returned after its transaction, and another
\* session has acquired the transaction after it
C27_Witness ==
    \E p, q \in Sessions :
        /\ p # q
        /\ calls[p].pc = "returned"
        /\ calls[p].op = "make_reservation"
        /\ calls[p].result.message.kind \in {"confirmed", "became_fully_booked", "failed"}
        /\ Len(reservations) > 0
        /\ InTransaction(q)
        /\ db_lock = q

====
